---- MODULE Spec2Model ----
(***************************************************************************)
(* go-hnswlib: the hnsw.Index wrapper (src/hnsw/index.go) and the two      *)
(* bulk front ends built on it: the "main" package flavour                  *)
(* (src/unnamed/part_000) and the "parallel" package flavour                *)
(* (src/experimental/parallel/parallel.go).                                 *)
(*                                                                         *)
(* Vectors have dimension 1 and small integer components, so that          *)
(* normalizeVector, the L2 and the inner-product distances are exact       *)
(* integer computations.  The engine behind hnsw_wrapper.cpp is a store    *)
(* of slots in internal-id order; an exception of the engine (the catch    *)
(* blocks of the *Safe wrappers) is carried by the record's rej flag.      *)
(***************************************************************************)
EXTENDS Integers, Sequences, FiniteSets, TLC

\* ------------------------------------------------------------------ bounds
MaxBatch    == 2   \* longest batch of records / queries of one bulk call
MaxWorkers  == 2   \* largest options.MaxWorkers a caller passes
NumCPU      == 1   \* what runtime.GOMAXPROCS(0) returns
MaxCapacity == 2   \* largest maxElements an index is created with
MaxK        == 1   \* largest k of a search
MaxBulk     == 1   \* bulk calls one caller makes (single Adds are not counted)
MaxCursor   == 3   \* largest currentID an iterator is advanced to

Vecs     == {-1, 2}
Spaces   == {"l", "i", "c"}
Impls    == {"main", "parallel"}
Callers  == {1, 2}
Workers  == 1..(IF MaxWorkers > NumCPU THEN MaxWorkers ELSE NumCPU)

\* ------------------------------------------------------- Go slices, errors
NilSlice     == [nil |-> TRUE, items |-> <<>>]
Slice(items) == [nil |-> FALSE, items |-> items]

NoErr == [msg |-> "nil", job |-> 0]
Err(m, j) == [msg |-> m, job |-> j]

ErrNilIndex   == "index is nil"
ErrBatchCap   == "batch would exceed index capacity"
ErrClosed     == "index is closed"
ErrAtCapacity == "index is at maximum capacity"
ErrAddFailed  == "failed to add point"

\* ------------------------------------------------------------- the engine
\* hnswlib behind the C wrapper: slots in internal-id order.
LabelSlots(st, l) == {i \in 1..Len(st) : st[i].label = l}

\* addPointSafe: 0 and the new store, or -1 when the engine throws.  The
\* engine updates in place a label it already holds and throws when a new
\* label finds no free slot.
addPointSafe(st, mx, vec, label, rej) ==
  IF rej THEN [rc |-> -1, store |-> st]
  ELSE IF LabelSlots(st, label) # {}
    THEN LET i == CHOOSE j \in LabelSlots(st, label) : TRUE
         IN [rc |-> 0,
             store |-> [st EXCEPT ![i] = [label |-> label, vec |-> vec, deleted |-> FALSE]]]
  ELSE IF Len(st) >= mx THEN [rc |-> -1, store |-> st]
  ELSE [rc |-> 0,
        store |-> Append(st, [label |-> label, vec |-> vec, deleted |-> FALSE])]

\* initHNSW: 'i' and 'c' use the inner-product space, everything else L2.
Distance(sp, a, b) ==
  IF sp \in {"i", "c"} THEN 1 - a * b ELSE (a - b) * (a - b)

Live(st) == {i \in 1..Len(st) : ~st[i].deleted}

\* The slot of `cand` nearest to q (ties: lowest internal id).
Nearest(sp, st, q, cand) ==
  CHOOSE i \in cand : \A j \in cand :
    \/ Distance(sp, st[i].vec, q) < Distance(sp, st[j].vec, q)
    \/ Distance(sp, st[i].vec, q) = Distance(sp, st[j].vec, q) /\ i <= j

RECURSIVE KnnSlots(_, _, _, _, _)
KnnSlots(sp, st, q, n, cand) ==
  IF n <= 0 \/ cand = {} THEN <<>>
  ELSE LET i == Nearest(sp, st, q, cand)
       IN <<i>> \o KnnSlots(sp, st, q, n - 1, cand \ {i})

\* A searchKnn that answers N whatever the engine found.
searchKnnCountsN(sp, st, q, n) ==
  [n |-> n, label |-> [j \in 1..n |-> 0], dist |-> [j \in 1..n |-> 0]]

\* searchKnn: fills label[0..n-1] and dist[0..n-1] nearest first, returns n.
searchKnn(sp, st, q, n) ==
  LET slots == KnnSlots(sp, st, q, n, Live(st))
  IN [n |-> Len(slots),
      label |-> [j \in 1..Len(slots) |-> st[slots[j]].label],
      dist |-> [j \in 1..Len(slots) |-> Distance(sp, st[slots[j]].vec, q)]]

\* ---------------------------------------------------------- hnsw.Index
\* v / (|v| + 1e-15) in float32, dimension 1: the sign of v.
normalizeVector(v) == IF v > 0 THEN 1 ELSE IF v < 0 THEN -1 ELSE 0

\* A normalizeVector that scales its argument in place.
normalizeVectorInPlace(v) == normalizeVector(v)

\* The argument slice after normalizeVector: the function reads vector[i]
\* and writes normalized[i], the slice it made.
normalizeVectorInput(v) == v

\* The caller's slice after Add / SearchK got it: `if i.normalize { ... =
\* normalizeVector(vec) }`.
CallerSlice(normalize, v) == IF normalize THEN normalizeVectorInput(v) ELSE v

\* A count that leaves out the soft-deleted elements.
GetCurrentCountLive(hh, st) ==
  IF hh = "nil" THEN 0 ELSE Cardinality({i \in 1..Len(st) : ~st[i].deleted})

GetCurrentCount(hh, st) == IF hh = "nil" THEN 0 ELSE Len(st)
GetMaxElements(hh, mx)  == IF hh = "nil" THEN 0 ELSE mx

\* A capacity check that is off by one (> for >=).
AddCheckOffByOne(hh, st, mx) ==
  IF hh = "nil" THEN ErrClosed
  ELSE IF GetCurrentCount(hh, st) > GetMaxElements(hh, mx) THEN ErrAtCapacity
  ELSE "ok"

\* Index.Add up to the capacity check: the error it returns, or "ok".
AddCheck(hh, st, mx) ==
  IF hh = "nil" THEN ErrClosed
  ELSE IF GetCurrentCount(hh, st) >= GetMaxElements(hh, mx) THEN ErrAtCapacity
  ELSE "ok"

\* An Add that hands the caller's vector to the engine as it is.
AddInsertRaw(sp, st, mx, rec) ==
  LET r == addPointSafe(st, mx, rec.vec, rec.label, rec.rej)
  IN [err |-> IF r.rc # 0 THEN ErrAddFailed ELSE "nil", store |-> r.store]

\* Index.Add from the normalization on: [err, store].
AddInsert(sp, st, mx, rec) ==
  LET vecToAdd == IF sp = "c" THEN normalizeVector(rec.vec) ELSE rec.vec
      r == addPointSafe(st, mx, vecToAdd, rec.label, rec.rej)
  IN [err |-> IF r.rc # 0 THEN ErrAddFailed ELSE "nil", store |-> r.store]

\* A SearchK that hands out its k-long buffers uncut.
SearchKUncut(hh, sp, st, query, k) ==
  IF hh = "nil" THEN [labels |-> NilSlice, distances |-> NilSlice, count |-> 0]
  ELSE LET queryToSearch == IF sp = "c" THEN normalizeVector(query) ELSE query
           r == searchKnn(sp, st, queryToSearch, k)
       IN [labels |-> Slice([j \in 1..k |-> IF j <= r.n THEN r.label[j] ELSE 0]),
           distances |-> Slice([j \in 1..k |-> IF j <= r.n THEN r.dist[j] ELSE 0]),
           count |-> r.n]

SearchK(hh, sp, st, query, k) ==
  IF hh = "nil" THEN [labels |-> NilSlice, distances |-> NilSlice, count |-> 0]
  ELSE LET queryToSearch == IF sp = "c" THEN normalizeVector(query) ELSE query
           r == searchKnn(sp, st, queryToSearch, k)
       IN [labels |-> Slice(r.label), distances |-> Slice(r.dist), count |-> r.n]

\* A SearchKSimilarity that uses 1/(1+d) in every space.
SearchKSimilarityOneRule(hh, sp, st, query, k) ==
  LET r == SearchK(hh, sp, st, query, k)
  IN IF r.count = 0
       THEN [labels |-> r.labels, similarities |-> NilSlice, count |-> 0]
       ELSE [labels |-> r.labels,
             similarities |-> Slice([j \in 1..r.count |->
                                       [num |-> 1, den |-> 1 + r.distances.items[j]]]),
             count |-> r.count]

\* A similarity is the exact fraction num/den (den = 0: +Inf in float32).
SearchKSimilarity(hh, sp, st, query, k) ==
  LET r == SearchK(hh, sp, st, query, k)
  IN IF r.count = 0
       THEN [labels |-> r.labels, similarities |-> NilSlice, count |-> 0]
       ELSE [labels |-> r.labels,
             similarities |-> Slice([j \in 1..r.count |->
                IF sp = "c"
                  THEN [num |-> 1 - r.distances.items[j], den |-> 1]
                  ELSE [num |-> 1, den |-> 1 + r.distances.items[j]]]),
             count |-> r.count]
\* ------------------------------------------- the engine: delete, resize, fetch
Slot(st, l) == CHOOSE i \in LabelSlots(st, l) : TRUE

\* markDeletedSafe: the engine throws on a label it does not hold and on one
\* that is deleted already.
markDeletedSafe(st, label) ==
  IF LabelSlots(st, label) = {} \/ st[Slot(st, label)].deleted
    THEN [rc |-> -1, store |-> st]
    ELSE [rc |-> 0, store |-> [st EXCEPT ![Slot(st, label)].deleted = TRUE]]

\* unmarkDeletedSafe: throws on a label it does not hold and on one that is
\* not deleted.
unmarkDeletedSafe(st, label) ==
  IF LabelSlots(st, label) = {} \/ ~st[Slot(st, label)].deleted
    THEN [rc |-> -1, store |-> st]
    ELSE [rc |-> 0, store |-> [st EXCEPT ![Slot(st, label)].deleted = FALSE]]

\* An engine that takes any new size.
resizeIndexSafeAny(st, mx, newMax) == [rc |-> 0, max |-> newMax]

\* resizeIndexSafe: throws when the new size is below the element count.
resizeIndexSafe(st, mx, newMax) ==
  IF newMax < Len(st) THEN [rc |-> -1, max |-> mx] ELSE [rc |-> 0, max |-> newMax]

getDeletedCount(st) == Cardinality({i \in 1..Len(st) : st[i].deleted})
getDimension == 1

\* getVectorByLabel: the dimension and the stored vector, -1 if the label is
\* not found or deleted.
getVectorByLabel(st, label) ==
  IF LabelSlots(st, label) = {} \/ st[Slot(st, label)].deleted
    THEN [rc |-> -1, vec |-> 0]
    ELSE [rc |-> getDimension, vec |-> st[Slot(st, label)].vec]

\* getElementByInternalId: 0 with label and delete flag, -1 if the internal id
\* is out of range.  Internal ids start at 0.
getElementByInternalId(st, id) ==
  IF id >= Len(st) THEN [rc |-> -1, label |-> 0, isDeleted |-> 0]
  ELSE [rc |-> 0, label |-> st[id + 1].label,
        isDeleted |-> IF st[id + 1].deleted THEN 1 ELSE 0]

\* getVectorByInternalId: the dimension and the vector, -1 on error.
getVectorByInternalId(st, id) ==
  IF id >= Len(st) THEN [rc |-> -1, vec |-> 0]
  ELSE [rc |-> getDimension, vec |-> st[id + 1].vec]
\* ------------------------------------------- hnsw.Index: the other methods
ErrResize   == "failed to resize index"
ErrSave     == "failed to save index"
ErrMark     == "failed to mark label as deleted"
ErrUnmark   == "failed to unmark label as deleted"
ErrNotFound == "label not found or deleted"
ErrElement  == "element not found"
ErrVector   == "failed to get vector"
ErrVisitor  == "stop"

\* A closed check that never fires.
NeverClosed(hh) == FALSE

\* `i == nil || i.h == nil`
Closed(hh) == hh = "nil"

\* Every method answers with what it returns and with `engine`: whether it
\* went on to call the engine with i.h.
Resize(hh, st, mx, newMaxElements) ==
  IF Closed(hh) THEN [err |-> ErrClosed, max |-> mx, engine |-> FALSE]
  ELSE LET r == resizeIndexSafe(st, mx, newMaxElements)
       IN [err |-> IF r.rc # 0 THEN ErrResize ELSE "nil", max |-> r.max, engine |-> TRUE]

\* saved: what saveIndexSafe answers (file permissions, disk space).
Save(hh, saved) ==
  IF Closed(hh) THEN [err |-> ErrClosed, engine |-> FALSE]
  ELSE [err |-> IF saved THEN "nil" ELSE ErrSave, engine |-> TRUE]

GetDeletedCount(hh, st) == IF Closed(hh) THEN 0 ELSE getDeletedCount(st)
GetDimension(hh) == IF Closed(hh) THEN 0 ELSE getDimension

\* A MarkDeleted that drops the engine's answer.
MarkDeletedSwallows(hh, st, label) ==
  IF Closed(hh) THEN [err |-> ErrClosed, store |-> st, engine |-> FALSE]
  ELSE [err |-> "nil", store |-> markDeletedSafe(st, label).store, engine |-> TRUE]

\* A MarkDeleted without the closed check.
MarkDeletedUnchecked(hh, st, label) ==
  LET r == markDeletedSafe(st, label)
  IN [err |-> IF r.rc # 0 THEN ErrMark ELSE "nil", store |-> r.store, engine |-> TRUE]

MarkDeleted(hh, st, label) ==
  IF Closed(hh) THEN [err |-> ErrClosed, store |-> st, engine |-> FALSE]
  ELSE LET r == markDeletedSafe(st, label)
       IN [err |-> IF r.rc # 0 THEN ErrMark ELSE "nil", store |-> r.store, engine |-> TRUE]

\* An UnmarkDeleted that answers nil without asking the engine.
UnmarkDeletedNoOp(hh, st, label) ==
  IF Closed(hh) THEN [err |-> ErrClosed, store |-> st, engine |-> FALSE]
  ELSE [err |-> "nil", store |-> st, engine |-> FALSE]

UnmarkDeleted(hh, st, label) ==
  IF Closed(hh) THEN [err |-> ErrClosed, store |-> st, engine |-> FALSE]
  ELSE LET r == unmarkDeletedSafe(st, label)
       IN [err |-> IF r.rc # 0 THEN ErrUnmark ELSE "nil", store |-> r.store, engine |-> TRUE]

GetVector(hh, st, label) ==
  IF Closed(hh) THEN [vector |-> NilSlice, err |-> ErrClosed, engine |-> FALSE]
  ELSE LET r == getVectorByLabel(st, label)
       IN IF r.rc < 0 THEN [vector |-> NilSlice, err |-> ErrNotFound, engine |-> TRUE]
          ELSE [vector |-> Slice(<<r.vec>>), err |-> "nil", engine |-> TRUE]

\* A GetVectors that keeps the buffer of every label asked for.
GetVectorsAllRequested(hh, st, labels) ==
  IF Closed(hh) THEN [found |-> {}, result |-> <<>>, nil |-> TRUE, err |-> ErrClosed,
                      engine |-> FALSE]
  ELSE LET found == {labels[j] : j \in 1..Len(labels)}
       IN [found |-> found,
           result |-> [l \in found |-> getVectorByLabel(st, l).vec],
           nil |-> FALSE, err |-> "nil", engine |-> TRUE]

\* The map returned is a function from the labels found to their vectors.
GetVectors(hh, st, labels) ==
  IF Closed(hh) THEN [found |-> {}, result |-> <<>>, nil |-> TRUE, err |-> ErrClosed,
                      engine |-> FALSE]
  ELSE LET found == {labels[j] : j \in {n \in 1..Len(labels) :
                                          getVectorByLabel(st, labels[n]).rc >= 0}}
       IN [found |-> found,
           result |-> [l \in found |-> getVectorByLabel(st, l).vec],
           nil |-> FALSE, err |-> "nil", engine |-> TRUE]
\* ------------------------------------------------------- VectorIterator
\* currentID and totalCount are the fields of the struct (its index is the
\* one Index, its dimension is 1); born and steps are history: the count
\* read when the iterator was made, the Advance calls since it was made or
\* last Reset.
NoIterator == [made |-> FALSE, currentID |-> 0, totalCount |-> 0, born |-> 0, steps |-> 0]
ZeroElementInfo == [InternalID |-> 0, Label |-> 0, IsDeleted |-> FALSE]

NewIterator(hh, st) ==
  IF Closed(hh) THEN [iter |-> NoIterator, err |-> ErrClosed, engine |-> FALSE]
  ELSE [iter |-> [made |-> TRUE, currentID |-> 0, totalCount |-> GetCurrentCount(hh, st),
                  born |-> Len(st), steps |-> 0],
        err |-> "nil", engine |-> TRUE]

\* A Next that stops one element early.
IterNextOneShort(iter) == iter.currentID + 1 < iter.totalCount

\* A Next that is still true at the snapshot bound.
IterNextInclusive(iter) == iter.currentID <= iter.totalCount

\* VectorIterator.Next
IterNext(iter) == iter.currentID < iter.totalCount

\* The engine's fetch by internal id answers -1 "on error": `bad` are the
\* internal ids at which it does so although the id is in range.
ElementWith(hh, st, iter, bad) ==
  IF Closed(hh) THEN [info |-> ZeroElementInfo, err |-> ErrClosed, engine |-> FALSE]
  ELSE LET r == IF iter.currentID \in bad THEN [rc |-> -1, label |-> 0, isDeleted |-> 0]
                ELSE getElementByInternalId(st, iter.currentID)
       IN IF r.rc < 0 THEN [info |-> ZeroElementInfo, err |-> ErrElement, engine |-> TRUE]
          ELSE [info |-> [InternalID |-> iter.currentID, Label |-> r.label,
                          IsDeleted |-> r.isDeleted # 0],
                err |-> "nil", engine |-> TRUE]
Element(hh, st, iter) == ElementWith(hh, st, iter, {})

VectorWith(hh, st, iter, bad) ==
  IF Closed(hh) THEN [vector |-> NilSlice, err |-> ErrClosed, engine |-> FALSE]
  ELSE LET r == IF iter.currentID \in bad THEN [rc |-> -1, vec |-> 0]
                ELSE getVectorByInternalId(st, iter.currentID)
       IN IF r.rc < 0 THEN [vector |-> NilSlice, err |-> ErrVector, engine |-> TRUE]
          ELSE [vector |-> Slice(<<r.vec>>), err |-> "nil", engine |-> TRUE]
Vector(hh, st, iter) == VectorWith(hh, st, iter, {})

\* An Advance that moves two positions.
AdvanceTwo(iter) == [iter EXCEPT !.currentID = @ + 2, !.steps = @ + 1]

\* An Advance that leaves the cursor where it is.
AdvanceStays(iter) == [iter EXCEPT !.steps = @ + 1]

Advance(iter) == [iter EXCEPT !.currentID = @ + 1, !.steps = @ + 1]
Progress(iter) == [current |-> iter.currentID, total |-> iter.totalCount]
Reset(hh, st, iter) ==
  [iter EXCEPT !.currentID = 0, !.totalCount = GetCurrentCount(hh, st), !.steps = 0]

\* ---------------------------------------------------------------- Export
\* The visitor: it returns its error on invocation number failAt (0: never).
Visitor(failAt, n) == IF n = failAt THEN Err(ErrVisitor, n) ELSE NoErr

\* A filter that lets the deleted elements through.
SkipsNothing(includeDeleted, isDeleted) == FALSE

\* `!includeDeleted && elem.IsDeleted`
Skips(includeDeleted, isDeleted) == ~includeDeleted /\ isDeleted

\* A loop that goes on after the visitor's error.
NeverStops(err) == FALSE

\* `if err := fn(...); err != nil { return err }`
Stops(err) == err # NoErr

\* A loop that takes a failed fetch for a fetched element.
FetchNeverFailed(err) == FALSE

\* `if err != nil { iter.Advance(); continue }` after Element() and Vector()
FetchFailed(err) == err # "nil"

NoFaults == [element |-> {}, vector |-> {}]

\* The loop of Export from the iterator's position on; visits are the
\* invocations of fn made so far, trail is the history of the iterations:
\* the cursor and what the iteration did.
RECURSIVE ExportLoop(_, _, _, _, _, _, _, _)
ExportLoop(hh, st, includeDeleted, failAt, iter, visits, faults, trail) ==
  IF ~IterNext(iter) THEN [err |-> NoErr, visits |-> visits, trail |-> trail]
  ELSE LET elem == ElementWith(hh, st, iter, faults.element)
           vector == VectorWith(hh, st, iter, faults.vector)
           seen == Append(visits, [label |-> elem.info.Label, vector |-> vector.vector,
                                   isDeleted |-> elem.info.IsDeleted])
           did(what) == Append(trail, [id |-> iter.currentID, did |-> what])
       IN IF FetchFailed(elem.err)
            THEN ExportLoop(hh, st, includeDeleted, failAt, Advance(iter), visits,
                            faults, did("no element"))
          ELSE IF Skips(includeDeleted, elem.info.IsDeleted)
            THEN ExportLoop(hh, st, includeDeleted, failAt, Advance(iter), visits,
                            faults, did("filtered"))
          ELSE IF FetchFailed(vector.err)
            THEN ExportLoop(hh, st, includeDeleted, failAt, Advance(iter), visits,
                            faults, did("no vector"))
          ELSE IF Stops(Visitor(failAt, Len(seen)))
            THEN [err |-> Visitor(failAt, Len(seen)), visits |-> seen,
                  trail |-> did("visited")]
          ELSE ExportLoop(hh, st, includeDeleted, failAt, Advance(iter), seen,
                          faults, did("visited"))

ExportWith(hh, st, includeDeleted, failAt, faults) ==
  LET r == NewIterator(hh, st)
      l == ExportLoop(hh, st, includeDeleted, failAt, r.iter, <<>>, faults, <<>>)
  IN IF r.err # "nil"
       THEN [err |-> Err(r.err, 0), visits |-> <<>>, trail |-> <<>>, engine |-> FALSE]
       ELSE [err |-> l.err, visits |-> l.visits, trail |-> l.trail, engine |-> TRUE]
Export(hh, st, includeDeleted, failAt) == ExportWith(hh, st, includeDeleted, failAt, NoFaults)

\* The loop `for iter.Next() { Element(); Vector(); Advance() }` of the
\* iterator tests: the steps it made; it stops at the first failed fetch.
RECURSIVE TraverseLoop(_, _, _, _)
TraverseLoop(hh, st, iter, steps) ==
  IF ~IterNext(iter) THEN [failed |-> FALSE, steps |-> steps]
  ELSE LET elem == Element(hh, st, iter)
           vector == Vector(hh, st, iter)
       IN IF elem.err # "nil" \/ vector.err # "nil" THEN [failed |-> TRUE, steps |-> steps]
          ELSE TraverseLoop(hh, st, Advance(iter),
                            Append(steps, [info |-> elem.info, vector |-> vector.vector]))
\* ------------------------------------------------------------------ state
VARIABLES
  space,        \* Index.normalize is space = "c"; the engine's metric
  h,            \* Index.h: "open" or "nil"
  store,        \* the engine's slots: <<[label, vec, deleted], ...>>
  maxElements,  \* the engine's max_elements_
  call,         \* per caller: the bulk (or single) call it is in
  wk,           \* per caller, per worker goroutine: [pc, job, out]
  budget,       \* per caller: bulk calls it may still make
  it,           \* the VectorIterator the caller holds
  eng           \* history of the engine: FreeHNSW calls, calls on a freed handle

vars == <<space, h, store, maxElements, call, wk, budget, it, eng>>

NewEngine == [frees |-> 0, stale |-> FALSE]

ZeroResult == [Labels |-> NilSlice, Scores |-> NilSlice, Count |-> 0, QueryIndex |-> 0]
NoRet      == [set |-> FALSE, results |-> NilSlice, err |-> NoErr]
IdleWorker == [pc |-> "none", job |-> 0, out |-> NoErr]

IdleCall ==
  [pc |-> "idle", op |-> "none", impl |-> "main", indexNil |-> FALSE,
   vectors |-> <<>>, queries |-> <<>>, k |-> 0,
   optsNil |-> TRUE, optsMaxWorkers |-> 0,      \* the caller's options struct
   maxWorkers |-> 0,                            \* workers this call starts
   workCh |-> <<>>, sent |-> 0, closed |-> TRUE,\* job channel, its producer
   outCh |-> <<>>,                              \* errorCh / results channel
   results |-> <<>>,                            \* results array of the call
   ret |-> NoRet,
   arg |-> 0, val |-> 0,                        \* a direct call: argument, value
   \* history of the call
   seenStore |-> <<>>, handed |-> <<>>, addErrs |-> {}, written |-> <<>>,
   spawned |-> 0, givenMaxWorkers |-> 0, givenVectors |-> <<>>, givenQueries |-> <<>>]

\* The batches of n records with the pairwise distinct labels b+1..b+n; the
\* engine throws on the records of R.
VecOf(l) == IF l % 2 = 1 THEN 2 ELSE -1
BatchesFrom(b, rejects) ==
  UNION {{[i \in 1..n |-> [label |-> b + i, vec |-> VecOf(b + i), rej |-> (i \in R)]] :
            R \in (IF rejects THEN SUBSET (1..n) ELSE {{}})} : n \in 0..MaxBatch}
Batches == BatchesFrom(0, TRUE)
QueryBatches == UNION {[1..n -> Vecs] : n \in 0..MaxBatch}
OptionValues == {[nil |-> TRUE, MaxWorkers |-> 0]}
                  \cup {[nil |-> FALSE, MaxWorkers |-> m] : m \in 0..MaxWorkers}

Init ==
  /\ space \in Spaces
  /\ h = "open"
  /\ store = <<>>
  /\ maxElements \in 1..MaxCapacity
  /\ call = [c \in Callers |-> IdleCall]
  /\ wk = [c \in Callers |-> [w \in Workers |-> IdleWorker]]
  /\ budget = [c \in Callers |-> IF c = 1 THEN MaxBulk ELSE 0]
  /\ it = NoIterator
  /\ eng = NewEngine
\* ------------------------------------------------------------ bulk calls
NJobs(cl) == IF cl.op \in {"BatchAdd", "Add"} THEN Len(cl.vectors) ELSE Len(cl.queries)
CanCall(c) ==
  /\ call[c].pc \in {"idle", "returned"}
  /\ call[c].closed                       \* no producer of an earlier call is left
Returned(cl, res, e) == [cl EXCEPT !.pc = "returned", !.ret = [set |-> TRUE, results |-> res, err |-> e]]

\* A worker count taken from the options without a default.
ResolveWorkersRaw(impl, opt) == opt.MaxWorkers

\* The options handling: "main" writes the defaults into the struct it was
\* given, "parallel" keeps them in a local.
ResolveWorkers(impl, opt) ==
  IF impl = "main"
    THEN IF opt.MaxWorkers <= 0 THEN NumCPU ELSE opt.MaxWorkers
    ELSE IF ~opt.nil /\ opt.MaxWorkers > 0 THEN opt.MaxWorkers ELSE NumCPU
OptionsAfter(impl, opt) ==
  IF impl = "main" /\ ~opt.nil THEN ResolveWorkers(impl, opt) ELSE opt.MaxWorkers

\* Whether the call returns before starting any goroutine: only "main"
\* returns early on an empty job set.
EarlyNil(impl, n) == impl = "main" /\ n = 0

\* The up-front capacity check of BatchAdd: only "main" has one.
BatchCapacityError(impl, hh, st, mx, n) ==
  impl = "main" /\ GetCurrentCount(hh, st) + n > GetMaxElements(hh, mx)

SpawnWorkers(n) ==
  [w \in Workers |-> IF w <= n THEN [IdleWorker EXCEPT !.pc = "recv"] ELSE IdleWorker]

NewCall(op, impl, nilIdx, vectors, queries, k, opt) ==
  [IdleCall EXCEPT !.op = op, !.impl = impl, !.indexNil = nilIdx, !.vectors = vectors,
                   !.queries = queries, !.k = k, !.optsNil = opt.nil,
                   !.optsMaxWorkers = opt.MaxWorkers, !.seenStore = store,
                   !.givenMaxWorkers = opt.MaxWorkers,
                   !.givenVectors = vectors, !.givenQueries = queries]

\* The call up to wg.Wait(): channels and results array made, workers (and
\* producer) started.
Started(cl, impl, opt, n, array) ==
  [cl EXCEPT !.pc = "wait", !.optsMaxWorkers = OptionsAfter(impl, opt),
             !.maxWorkers = ResolveWorkers(impl, opt),
             !.closed = FALSE, !.spawned = ResolveWorkers(impl, opt),
             !.handed = [j \in 1..n |-> 0], !.written = [j \in 1..n |-> 0],
             !.results = array]

BatchAddCall(c, impl, nilIdx, vectors, opt) ==
  LET cl == NewCall("BatchAdd", impl, nilIdx, vectors, <<>>, 0, opt)
      n  == Len(vectors)
  IN /\ CanCall(c)
     /\ budget[c] > 0
     /\ budget' = [budget EXCEPT ![c] = @ - 1]
     /\ IF nilIdx
          THEN /\ call' = [call EXCEPT ![c] = Returned(cl, NilSlice, Err(ErrNilIndex, 0))]
               /\ UNCHANGED wk
        ELSE IF EarlyNil(impl, n)
          THEN /\ call' = [call EXCEPT ![c] = Returned(cl, NilSlice, NoErr)]
               /\ UNCHANGED wk
        ELSE IF BatchCapacityError(impl, h, store, maxElements, n)
          THEN /\ call' = [call EXCEPT ![c] =
                    Returned([cl EXCEPT !.optsMaxWorkers = OptionsAfter(impl, opt)],
                             NilSlice, Err(ErrBatchCap, 0))]
               /\ UNCHANGED wk
        ELSE /\ call' = [call EXCEPT ![c] = Started(cl, impl, opt, n, <<>>)]
             /\ wk' = [wk EXCEPT ![c] = SpawnWorkers(ResolveWorkers(impl, opt))]
     /\ UNCHANGED <<it, eng, space, h, store, maxElements>>

ZeroOf(impl) ==
  IF impl = "main" THEN ZeroResult
  ELSE [QueryIndex |-> 0, Labels |-> NilSlice, Scores |-> NilSlice]

\* ParallelSearch and ParallelSearchSimilarity differ in the search they call.
SearchCall(c, op, impl, nilIdx, queries, k, opt) ==
  LET cl == NewCall(op, impl, nilIdx, <<>>, queries, k, opt)
      n  == Len(queries)
  IN /\ CanCall(c)
     /\ budget[c] > 0
     /\ budget' = [budget EXCEPT ![c] = @ - 1]
     /\ IF nilIdx
          THEN /\ call' = [call EXCEPT ![c] = Returned(cl, NilSlice, Err(ErrNilIndex, 0))]
               /\ UNCHANGED wk
        ELSE IF EarlyNil(impl, n)
          THEN /\ call' = [call EXCEPT ![c] = Returned(cl, NilSlice, NoErr)]
               /\ UNCHANGED wk
        ELSE /\ call' = [call EXCEPT ![c] = Started(cl, impl, opt, n, [j \in 1..n |-> ZeroOf(impl)])]
             /\ wk' = [wk EXCEPT ![c] = SpawnWorkers(ResolveWorkers(impl, opt))]
     /\ UNCHANGED <<it, eng, space, h, store, maxElements>>

\* The producer (a goroutine in "main", the caller itself in "parallel"):
\* the job channel holds len(jobs) slots, so a send never blocks.
\* Capacity of the job channel: make(chan ..., len(vectors)) / len(queries).
WorkChCap(cl) == NJobs(cl)

\* The producer's `workCh <- job`: blocks while the channel is full.
Send(c) ==
  /\ call[c].pc \in {"wait", "returned"}
  /\ ~call[c].closed
  /\ call[c].sent < NJobs(call[c])
  /\ Len(call[c].workCh) < WorkChCap(call[c])
  /\ call' = [call EXCEPT ![c].sent = @ + 1,
                          ![c].workCh = Append(@, call[c].sent + 1)]
  /\ UNCHANGED <<it, eng, space, h, store, maxElements, wk, budget>>

CloseJobs(c) ==
  /\ call[c].pc \in {"wait", "returned"}
  /\ ~call[c].closed
  /\ call[c].sent = NJobs(call[c])
  /\ call' = [call EXCEPT ![c].closed = TRUE]
  /\ UNCHANGED <<it, eng, space, h, store, maxElements, wk, budget>>
\* ------------------------------------------------------------ the workers
\* `for job := range workCh`: take the next job, or leave once the channel
\* is closed and drained; block otherwise.
NextJobPc(op) == IF op = "BatchAdd" THEN "add" ELSE "search"
WorkerRecv(c, w) ==
  /\ wk[c][w].pc = "recv"
  /\ call[c].workCh # <<>> \/ call[c].closed
  /\ IF call[c].workCh # <<>>
       THEN /\ wk' = [wk EXCEPT ![c][w].pc = NextJobPc(call[c].op),
                                ![c][w].job = Head(call[c].workCh)]
            /\ call' = [call EXCEPT ![c].workCh = Tail(@)]
       ELSE /\ wk' = [wk EXCEPT ![c][w].pc = "exit"]
            /\ UNCHANGED call
  /\ UNCHANGED <<it, eng, space, h, store, maxElements, budget>>

\* A "main" worker that leaves its loop after any index.Add, failed or not.
AfterAddLeaves(impl, failed) ==
  IF impl = "main" THEN (IF failed THEN "report" ELSE "exit") ELSE "report"

\* What a worker of BatchAdd does after an index.Add that returned err:
\* "main" reports a failure and leaves its loop, "parallel" reports every
\* outcome and goes on.
AfterAdd(impl, failed) ==
  IF impl = "main" THEN (IF failed THEN "report" ELSE "recv") ELSE "report"
AfterReport(impl) == IF impl = "main" THEN "exit" ELSE "recv"

\* index.Add(vector.Vector, vector.Label), first half: closed and capacity checks.
WorkerAddCheck(c, w) ==
  LET j == wk[c][w].job
      e == AddCheck(h, store, maxElements)
  IN /\ wk[c][w].pc = "add"
     /\ IF e # "ok"
          THEN /\ wk' = [wk EXCEPT ![c][w].pc = AfterAdd(call[c].impl, TRUE),
                                   ![c][w].out = Err(e, j)]
               /\ call' = [call EXCEPT ![c].handed[j] = @ + 1,
                                       ![c].addErrs = @ \cup {Err(e, j)}]
          ELSE /\ wk' = [wk EXCEPT ![c][w].pc = "insert"]
               /\ call' = [call EXCEPT ![c].handed[j] = @ + 1]
     /\ UNCHANGED <<it, eng, space, h, store, maxElements, budget>>

\* index.Add, second half: normalize, AddPointSafe, the error it maps to.
WorkerAddInsert(c, w) ==
  LET j == wk[c][w].job
      r == AddInsert(space, store, maxElements, call[c].vectors[j])
  IN /\ wk[c][w].pc = "insert"
     /\ store' = r.store
     /\ IF r.err # "nil"
          THEN /\ wk' = [wk EXCEPT ![c][w].pc = AfterAdd(call[c].impl, TRUE),
                                   ![c][w].out = Err(r.err, j)]
               /\ call' = [call EXCEPT ![c].addErrs = @ \cup {Err(r.err, j)},
                                       ![c].vectors[j].vec = CallerSlice(space = "c", @)]
          ELSE /\ wk' = [wk EXCEPT ![c][w].pc = AfterAdd(call[c].impl, FALSE),
                                   ![c][w].out = NoErr]
               /\ call' = [call EXCEPT ![c].vectors[j].vec = CallerSlice(space = "c", @)]
     /\ UNCHANGED <<it, eng, space, h, maxElements, budget>>

\* An unbuffered report channel.
UnbufferedOutCh(cl) == 0

\* A report channel with room for one outcome.
OutChCapOne(cl) == 1

\* Capacity of the channel the workers report on: errorCh holds MaxWorkers
\* errors in "main", results holds len(vectors) outcomes in "parallel".
OutChCap(cl) == IF cl.impl = "main" THEN cl.maxWorkers ELSE NJobs(cl)

\* "main": select { case errorCh <- err: default: }, then return.
\* "parallel": results <- err.
WorkerReport(c, w) ==
  /\ wk[c][w].pc = "report"
  /\ call[c].impl = "parallel" => Len(call[c].outCh) < OutChCap(call[c])
  /\ wk' = [wk EXCEPT ![c][w].pc = AfterReport(call[c].impl)]
  /\ call' = [call EXCEPT ![c].outCh =
                IF Len(@) < OutChCap(call[c]) THEN Append(@, wk[c][w].out) ELSE @]
  /\ UNCHANGED <<it, eng, space, h, store, maxElements, budget>>

\* A worker whose search depends on the position of the query in the batch.
SearchOutcomeByPosition(op, impl, j, query, k) ==
  LET r == IF op = "ParallelSearch"
             THEN SearchK(h, space, store, query, k - (j - 1))
             ELSE SearchKSimilarity(h, space, store, query, k - (j - 1))
      scores == IF op = "ParallelSearch" THEN r.distances ELSE r.similarities
  IN IF impl = "main"
       THEN [Labels |-> r.labels, Scores |-> scores, Count |-> r.count, QueryIndex |-> j - 1]
       ELSE [QueryIndex |-> j - 1, Labels |-> r.labels, Scores |-> scores]

\* A worker that asks the index for one neighbour too few.
SearchOutcomeShortK(op, impl, j, query, k) ==
  LET r == IF op = "ParallelSearch"
             THEN SearchK(h, space, store, query, k - 1)
             ELSE SearchKSimilarity(h, space, store, query, k - 1)
      scores == IF op = "ParallelSearch" THEN r.distances ELSE r.similarities
  IN IF impl = "main"
       THEN [Labels |-> r.labels, Scores |-> scores, Count |-> r.count, QueryIndex |-> j - 1]
       ELSE [QueryIndex |-> j - 1, Labels |-> r.labels, Scores |-> scores]

\* index.SearchK / index.SearchKSimilarity on the job's query.
SearchOutcome(op, impl, j, query, k) ==
  LET r == IF op = "ParallelSearch"
             THEN SearchK(h, space, store, query, k)
             ELSE SearchKSimilarity(h, space, store, query, k)
      scores == IF op = "ParallelSearch" THEN r.distances ELSE r.similarities
  IN IF impl = "main"
       THEN [Labels |-> r.labels, Scores |-> scores, Count |-> r.count, QueryIndex |-> j - 1]
       ELSE [QueryIndex |-> j - 1, Labels |-> r.labels, Scores |-> scores]

WorkerSearch(c, w) ==
  LET j == wk[c][w].job
  IN /\ wk[c][w].pc = "search"
     /\ wk' = [wk EXCEPT ![c][w].pc = "store",
                         ![c][w].out = SearchOutcome(call[c].op, call[c].impl, j,
                                                     call[c].queries[j], call[c].k)]
     /\ call' = [call EXCEPT ![c].handed[j] = @ + 1,
                             ![c].queries[j] = CallerSlice(~Closed(h) /\ space = "c", @)]
     /\ UNCHANGED <<it, eng, space, h, store, maxElements, budget>>

\* Every worker writing the first slot.
ResultSlotFirst(out, j) == 1

\* The slot of the results array a worker of "main" writes its outcome to.
ResultSlot(out, j) == out.QueryIndex + 1

\* "main": results[queryIdx] = SearchResult{...}; "parallel": results <- SearchResult{...}.
WorkerStore(c, w) ==
  LET out  == wk[c][w].out
      slot == ResultSlot(out, wk[c][w].job)
  IN /\ wk[c][w].pc = "store"
     /\ call[c].impl = "parallel" => Len(call[c].outCh) < OutChCap(call[c])
     /\ wk' = [wk EXCEPT ![c][w].pc = "recv"]
     /\ IF call[c].impl = "main"
          THEN call' = [call EXCEPT ![c].results[slot] = out, ![c].written[slot] = @ + 1]
          ELSE call' = [call EXCEPT ![c].outCh = Append(@, out)]
     /\ UNCHANGED <<it, eng, space, h, store, maxElements, budget>>

\* ------------------------------------------------------------- the return
\* A return that does not wait for the workers.
NoWait(c) == TRUE

\* wg.Wait(): every worker the call started has run its deferred wg.Done().
WaitDone(c) == \A w \in 1..call[c].maxWorkers : wk[c][w].pc = "exit"

\* "main": one non-blocking receive on the closed errorCh.
\* "parallel": the first non-nil outcome on the closed results channel.
RECURSIVE FirstError(_)
FirstError(ch) ==
  IF ch = <<>> THEN NoErr
  ELSE IF Head(ch) # NoErr THEN Head(ch) ELSE FirstError(Tail(ch))
BatchAddResult(impl, ch) ==
  IF impl = "main" THEN (IF ch = <<>> THEN NoErr ELSE Head(ch)) ELSE FirstError(ch)

\* A collection loop that appends the results as they arrive.
CollectInArrivalOrder(arr, ch) == [i \in 1..Len(arr) |-> ch[i]]

\* "parallel": searchResults[result.QueryIndex] = result for each result received.
RECURSIVE Collect(_, _)
Collect(arr, ch) ==
  IF ch = <<>> THEN arr
  ELSE Collect([arr EXCEPT ![Head(ch).QueryIndex + 1] = Head(ch)], Tail(ch))
RECURSIVE CountWrites(_, _)
CountWrites(cnt, ch) ==
  IF ch = <<>> THEN cnt
  ELSE CountWrites([cnt EXCEPT ![Head(ch).QueryIndex + 1] = @ + 1], Tail(ch))

Return(c) ==
  LET cl == call[c]
  IN /\ cl.pc = "wait"
     /\ WaitDone(c)
     /\ IF cl.op = "BatchAdd"
          THEN call' = [call EXCEPT ![c] =
                          Returned(cl, NilSlice, BatchAddResult(cl.impl, cl.outCh))]
        ELSE IF cl.impl = "main"
          THEN call' = [call EXCEPT ![c] = Returned(cl, Slice(cl.results), NoErr)]
        ELSE call' = [call EXCEPT ![c] =
                        Returned([cl EXCEPT !.results = Collect(@, cl.outCh),
                                            !.written = CountWrites(@, cl.outCh)],
                                 Slice(Collect(cl.results, cl.outCh)), NoErr)]
     /\ UNCHANGED <<it, eng, space, h, store, maxElements, wk, budget>>

\* --------------------------------------------------- single-record calls
\* index.Add called directly: the checks, then (AddStep) the insert.  `cost`
\* is what the call takes from the caller's budget.
AddCall(c, rec, cost) ==
  LET cl == [NewCall("Add", "main", FALSE, <<rec>>, <<>>, 0, [nil |-> TRUE, MaxWorkers |-> 0])
               EXCEPT !.handed = <<1>>]
      e  == AddCheck(h, store, maxElements)
  IN /\ CanCall(c)
     /\ budget[c] >= cost
     /\ budget' = [budget EXCEPT ![c] = @ - cost]
     /\ IF e # "ok"
          THEN call' = [call EXCEPT ![c] =
                          Returned([cl EXCEPT !.addErrs = {Err(e, 1)}], NilSlice, Err(e, 1))]
          ELSE call' = [call EXCEPT ![c] = [cl EXCEPT !.pc = "insert"]]
     /\ UNCHANGED <<it, eng, space, h, store, maxElements, wk>>

AddStep(c) ==
  LET r  == AddInsert(space, store, maxElements, call[c].vectors[1])
      cl == [call[c] EXCEPT !.vectors[1].vec = CallerSlice(space = "c", @)]
  IN /\ cl.pc = "insert"
     /\ store' = r.store
     /\ IF r.err # "nil"
          THEN call' = [call EXCEPT ![c] =
                          Returned([cl EXCEPT !.addErrs = {Err(r.err, 1)}], NilSlice, Err(r.err, 1))]
          ELSE call' = [call EXCEPT ![c] = Returned(cl, NilSlice, NoErr)]
     /\ UNCHANGED <<it, eng, space, h, maxElements, wk, budget>>

\* -------------------------------------------- direct calls on the Index
\* A call that runs in one step: what it was given and what it returned.
ErrOf(m) == IF m = "nil" THEN NoErr ELSE Err(m, 0)
Direct(op, arg, val, e) ==
  [NewCall(op, "main", FALSE, <<>>, <<>>, 0, [nil |-> TRUE, MaxWorkers |-> 0])
     EXCEPT !.pc = "returned", !.arg = arg, !.val = val,
            !.ret = [set |-> TRUE, results |-> NilSlice, err |-> e]]

\* The engine's history after a method that answered r.
Used(r) == [eng EXCEPT !.stale = @ \/ (r.engine /\ h = "nil")]

\* Index.Close: FreeHNSW(i.h), i.h = nil; nothing on a closed index.
CloseCall(c) ==
  /\ CanCall(c)
  /\ call' = [call EXCEPT ![c] = Direct("Close", h, 0, NoErr)]
  /\ IF Closed(h)
       THEN UNCHANGED <<h, store, eng>>
       ELSE /\ h' = "nil"
            /\ store' = <<>>
            /\ eng' = [eng EXCEPT !.frees = @ + 1, !.stale = @ \/ h = "nil"]
  /\ UNCHANGED <<space, maxElements, wk, budget, it>>

ResizeCall(c, newMaxElements) ==
  LET r == Resize(h, store, maxElements, newMaxElements)
  IN /\ CanCall(c)
     /\ maxElements' = r.max
     /\ call' = [call EXCEPT ![c] = Direct("Resize", newMaxElements, maxElements, ErrOf(r.err))]
     /\ eng' = Used(r)
     /\ UNCHANGED <<space, h, store, wk, budget, it>>

SaveCall(c, saved) ==
  LET r == Save(h, saved)
  IN /\ CanCall(c)
     /\ call' = [call EXCEPT ![c] = Direct("Save", saved, 0, ErrOf(r.err))]
     /\ eng' = Used(r)
     /\ UNCHANGED <<space, h, store, maxElements, wk, budget, it>>

Getters == {"GetCurrentCount", "GetMaxElements", "GetDeletedCount"}
GetterCall(c, getter) ==
  LET v == IF getter = "GetCurrentCount" THEN GetCurrentCount(h, store)
           ELSE IF getter = "GetMaxElements" THEN GetMaxElements(h, maxElements)
           ELSE GetDeletedCount(h, store)
  IN /\ CanCall(c)
     /\ call' = [call EXCEPT ![c] = Direct(getter, 0, v, NoErr)]
     /\ eng' = Used([engine |-> ~Closed(h)])
     /\ UNCHANGED <<space, h, store, maxElements, wk, budget, it>>

MarkDeletedCall(c, label) ==
  LET r == MarkDeleted(h, store, label)
  IN /\ CanCall(c)
     /\ store' = r.store
     /\ call' = [call EXCEPT ![c] = Direct("MarkDeleted", label, 0, ErrOf(r.err))]
     /\ eng' = Used(r)
     /\ UNCHANGED <<space, h, maxElements, wk, budget, it>>

UnmarkDeletedCall(c, label) ==
  LET r == UnmarkDeleted(h, store, label)
  IN /\ CanCall(c)
     /\ store' = r.store
     /\ call' = [call EXCEPT ![c] = Direct("UnmarkDeleted", label, 0, ErrOf(r.err))]
     /\ eng' = Used(r)
     /\ UNCHANGED <<space, h, maxElements, wk, budget, it>>

GetVectorCall(c, label) ==
  LET r == GetVector(h, store, label)
  IN /\ CanCall(c)
     /\ call' = [call EXCEPT ![c] = Direct("GetVector", label, r.vector, ErrOf(r.err))]
     /\ eng' = Used(r)
     /\ UNCHANGED <<space, h, store, maxElements, wk, budget, it>>

GetVectorsCall(c, labels) ==
  LET r == GetVectors(h, store, labels)
  IN /\ CanCall(c)
     /\ call' = [call EXCEPT ![c] =
                   Direct("GetVectors", labels,
                          [nil |-> r.nil, found |-> r.found, result |-> r.result],
                          ErrOf(r.err))]
     /\ eng' = Used(r)
     /\ UNCHANGED <<space, h, store, maxElements, wk, budget, it>>

\* Index.SearchK / Index.SearchKSimilarity called directly.
DirectSearches == {"SearchK", "SearchKSimilarity"}
SearchKCall(c, op, query, k) ==
  LET r == IF op = "SearchK" THEN SearchK(h, space, store, query, k)
           ELSE SearchKSimilarity(h, space, store, query, k)
  IN /\ CanCall(c)
     /\ call' = [call EXCEPT ![c] =
                   [Direct(op, [query |-> CallerSlice(~Closed(h) /\ space = "c", query),
                                k |-> k],
                           [labels |-> r.labels,
                            scores |-> IF op = "SearchK" THEN r.distances ELSE r.similarities,
                            count |-> r.count],
                           NoErr)
                      EXCEPT !.givenQueries = <<query>>]]
     /\ eng' = Used([engine |-> ~Closed(h)])
     /\ UNCHANGED <<space, h, store, maxElements, wk, budget, it>>
\* ------------------------------------------------- calls on the iterator
NewIteratorCall(c) ==
  LET r == NewIterator(h, store)
  IN /\ CanCall(c)
     /\ it' = IF r.err = "nil" THEN r.iter ELSE it
     /\ call' = [call EXCEPT ![c] = Direct("NewIterator", 0, r.err = "nil", ErrOf(r.err))]
     /\ eng' = Used(r)
     /\ UNCHANGED <<space, h, store, maxElements, wk, budget>>

IterNextCall(c) ==
  /\ CanCall(c) /\ it.made
  /\ call' = [call EXCEPT ![c] = Direct("Next", it, IterNext(it), NoErr)]
  /\ UNCHANGED <<space, h, store, maxElements, wk, budget, it, eng>>

ElementCall(c) ==
  LET r == Element(h, store, it)
  IN /\ CanCall(c) /\ it.made
     /\ call' = [call EXCEPT ![c] = Direct("Element", it, r.info, ErrOf(r.err))]
     /\ eng' = Used(r)
     /\ UNCHANGED <<space, h, store, maxElements, wk, budget, it>>

VectorCall(c) ==
  LET r == Vector(h, store, it)
  IN /\ CanCall(c) /\ it.made
     /\ call' = [call EXCEPT ![c] = Direct("Vector", it, r.vector, ErrOf(r.err))]
     /\ eng' = Used(r)
     /\ UNCHANGED <<space, h, store, maxElements, wk, budget, it>>

AdvanceCall(c) ==
  /\ CanCall(c) /\ it.made
  /\ it.currentID < MaxCursor
  /\ it' = Advance(it)
  /\ call' = [call EXCEPT ![c] = Direct("Advance", 0, 0, NoErr)]
  /\ UNCHANGED <<space, h, store, maxElements, wk, budget, eng>>

ProgressCall(c) ==
  /\ CanCall(c) /\ it.made
  /\ call' = [call EXCEPT ![c] = Direct("Progress", it, Progress(it), NoErr)]
  /\ UNCHANGED <<space, h, store, maxElements, wk, budget, it, eng>>

ResetCall(c) ==
  /\ CanCall(c) /\ it.made
  /\ it' = Reset(h, store, it)
  /\ call' = [call EXCEPT ![c] = Direct("Reset", 0, 0, NoErr)]
  /\ eng' = Used([engine |-> ~Closed(h)])
  /\ UNCHANGED <<space, h, store, maxElements, wk, budget>>

\* Index.Export with a visitor that fails on its failAt-th invocation.
ExportCall(c, includeDeleted, failAt) ==
  LET r == Export(h, store, includeDeleted, failAt)
  IN /\ CanCall(c)
     /\ call' = [call EXCEPT ![c] =
                   Direct("Export", [includeDeleted |-> includeDeleted, failAt |-> failAt],
                          r.visits, r.err)]
     /\ eng' = Used(r)
     /\ UNCHANGED <<space, h, store, maxElements, wk, budget, it>>

\* Index.Export over an engine whose fetches fail at the slots of `faults`.
ExportFaultyCall(c, includeDeleted, failAt, faults) ==
  LET r == ExportWith(h, store, includeDeleted, failAt, faults)
  IN /\ CanCall(c)
     /\ call' = [call EXCEPT ![c] =
                   Direct("Export", [includeDeleted |-> includeDeleted, failAt |-> failAt,
                                     faults |-> faults],
                          [visits |-> r.visits, trail |-> r.trail], r.err)]
     /\ eng' = Used(r)
     /\ UNCHANGED <<space, h, store, maxElements, wk, budget, it>>

\* A fresh iterator driven by the loop of the iterator tests.
TraverseCall(c) ==
  LET r == NewIterator(h, store)
      t == TraverseLoop(h, store, r.iter, <<>>)
  IN /\ CanCall(c)
     /\ r.err = "nil"
     /\ call' = [call EXCEPT ![c] = Direct("Traverse", 0, t, NoErr)]
     /\ eng' = Used(r)
     /\ UNCHANGED <<space, h, store, maxElements, wk, budget, it>>
\* ------------------------------------------------------- specifications
SearchOps == {"ParallelSearch", "ParallelSearchSimilarity"}
\* Job sets tried on a nil *hnsw.Index: nothing of them is looked at.
NilIndexBatches == {<<>>}
Records == {[label |-> l, vec |-> v, rej |-> r] : l \in 1..MaxBatch, v \in Vecs, r \in BOOLEAN}

Step(c) ==
  \/ \E impl \in Impls, vectors \in Batches, opt \in OptionValues :
       BatchAddCall(c, impl, FALSE, vectors, opt)
  \/ \E op \in SearchOps, impl \in Impls, queries \in QueryBatches,
        k \in 1..MaxK, opt \in OptionValues :
       SearchCall(c, op, impl, FALSE, queries, k, opt)
  \/ \E impl \in Impls, vectors \in NilIndexBatches :
       BatchAddCall(c, impl, TRUE, vectors, [nil |-> TRUE, MaxWorkers |-> 0])
  \/ \E op \in SearchOps, impl \in Impls, queries \in NilIndexBatches :
       SearchCall(c, op, impl, TRUE, queries, 1, [nil |-> TRUE, MaxWorkers |-> 0])
  \/ \E rec \in Records : AddCall(c, rec, 0)
  \/ AddStep(c)
  \/ \E op \in DirectSearches, query \in Vecs, k \in 1..MaxK : SearchKCall(c, op, query, k)
  \/ CloseCall(c)
  \/ Send(c)
  \/ CloseJobs(c)
  \/ Return(c)
  \/ \E w \in Workers :
       \/ WorkerRecv(c, w)
       \/ WorkerAddCheck(c, w)
       \/ WorkerAddInsert(c, w)
       \/ WorkerReport(c, w)
       \/ WorkerSearch(c, w)
       \/ WorkerStore(c, w)

\* One caller at a time: every call runs alone.
Next == Step(1)
Spec == Init /\ [][Next]_vars

\* The bulk calls alone, each goroutine scheduled fairly: the producer, the
\* caller waiting in wg.Wait() and every worker take a step they can take.
StepLive(c) ==
  \/ \E impl \in Impls, vectors \in Batches, opt \in OptionValues :
       BatchAddCall(c, impl, FALSE, vectors, opt)
  \/ \E op \in SearchOps, impl \in Impls, queries \in QueryBatches,
        k \in 1..MaxK, opt \in OptionValues :
       SearchCall(c, op, impl, FALSE, queries, k, opt)
  \/ Send(c)
  \/ CloseJobs(c)
  \/ Return(c)
  \/ \E w \in Workers :
       \/ WorkerRecv(c, w)
       \/ WorkerAddCheck(c, w)
       \/ WorkerAddInsert(c, w)
       \/ WorkerReport(c, w)
       \/ WorkerSearch(c, w)
       \/ WorkerStore(c, w)
WorkerStep(c, w) ==
  \/ WorkerRecv(c, w)
  \/ WorkerAddCheck(c, w)
  \/ WorkerAddInsert(c, w)
  \/ WorkerReport(c, w)
  \/ WorkerSearch(c, w)
  \/ WorkerStore(c, w)
FairScheduling(c) ==
  /\ WF_vars(Send(c) \/ CloseJobs(c))
  /\ WF_vars(Return(c))
  /\ \A w \in Workers : WF_vars(WorkerStep(c, w))
NextLive == StepLive(1)
SpecLive == Init /\ [][NextLive]_vars /\ FairScheduling(1)

\* Two callers inserting into the same index at the same time, each with
\* labels of its own and one worker per bulk call.
InitConc ==
  /\ space = "l"
  /\ h = "open"
  /\ store = <<>>
  /\ maxElements \in 1..MaxCapacity
  /\ call = [c \in Callers |-> IdleCall]
  /\ wk = [c \in Callers |-> [w \in Workers |-> IdleWorker]]
  /\ budget = [c \in Callers |-> MaxBulk]
  /\ it = NoIterator
  /\ eng = NewEngine

StepConc(c) ==
  \/ \E impl \in Impls, vectors \in BatchesFrom((c - 1) * MaxBatch, FALSE),
        opt \in {[nil |-> FALSE, MaxWorkers |-> 1]} :
       BatchAddCall(c, impl, FALSE, vectors, opt)
  \/ \E l \in 1..MaxBatch : AddCall(c, [label |-> (c - 1) * MaxBatch + l, vec |-> 2, rej |-> FALSE], 1)
  \/ AddStep(c)
  \/ Send(c)
  \/ CloseJobs(c)
  \/ Return(c)
  \/ \E w \in Workers :
       \/ WorkerRecv(c, w)
       \/ WorkerAddCheck(c, w)
       \/ WorkerAddInsert(c, w)
       \/ WorkerReport(c, w)

NextConc == \E c \in Callers : StepConc(c)
SpecConc == InitConc /\ [][NextConc]_vars
\* One caller using the Index directly, call after call.
AnyLabels  == 1..(MaxBatch + 1)
LabelLists == {<<>>} \cup {<<l>> : l \in AnyLabels} \cup {<<1, 2>>, <<3, 1>>, <<2, 2>>}
StepIdx(c) ==
  \/ \E rec \in Records : AddCall(c, rec, 0)
  \/ AddStep(c)
  \/ \E op \in DirectSearches, query \in Vecs, k \in 1..MaxK : SearchKCall(c, op, query, k)
  \/ CloseCall(c)
  \/ \E n \in 1..MaxCapacity : ResizeCall(c, n)
  \/ \E saved \in BOOLEAN : SaveCall(c, saved)
  \/ \E getter \in Getters : GetterCall(c, getter)
  \/ \E label \in AnyLabels : MarkDeletedCall(c, label)
  \/ \E label \in AnyLabels : UnmarkDeletedCall(c, label)
  \/ \E label \in AnyLabels : GetVectorCall(c, label)
  \/ \E labels \in LabelLists : GetVectorsCall(c, labels)
  \/ NewIteratorCall(c)
  \/ \E includeDeleted \in BOOLEAN, failAt \in 0..MaxCapacity : ExportCall(c, includeDeleted, failAt)
  \/ TraverseCall(c)

NextIdx == StepIdx(1)
SpecIdx == Init /\ [][NextIdx]_vars

\* One caller holding an iterator over an L2 index that it goes on
\* inserting into, deleting from and finally closes.
InitIter ==
  /\ space = "l"
  /\ h = "open"
  /\ store = <<>>
  /\ maxElements \in 1..MaxCapacity
  /\ call = [c \in Callers |-> IdleCall]
  /\ wk = [c \in Callers |-> [w \in Workers |-> IdleWorker]]
  /\ budget = [c \in Callers |-> 0]
  /\ it = NoIterator
  /\ eng = NewEngine

StepIter(c) ==
  \/ \E l \in 1..MaxBatch : AddCall(c, [label |-> l, vec |-> VecOf(l), rej |-> FALSE], 0)
  \/ AddStep(c)
  \/ \E label \in 1..MaxBatch : MarkDeletedCall(c, label)
  \/ CloseCall(c)
  \/ NewIteratorCall(c)
  \/ IterNextCall(c)
  \/ ElementCall(c)
  \/ VectorCall(c)
  \/ AdvanceCall(c)
  \/ ProgressCall(c)
  \/ ResetCall(c)

NextIter == StepIter(1)
SpecIter == InitIter /\ [][NextIter]_vars

\* One caller exporting an L2 index it inserts into and deletes from, over
\* an engine whose fetches by internal id can fail.
InternalIDs == 0..(MaxCapacity - 1)
FaultSets == [element : SUBSET InternalIDs, vector : SUBSET InternalIDs]
StepExport(c) ==
  \/ \E l \in 1..MaxBatch : AddCall(c, [label |-> l, vec |-> VecOf(l), rej |-> FALSE], 0)
  \/ AddStep(c)
  \/ \E label \in 1..MaxBatch : MarkDeletedCall(c, label)
  \/ \E includeDeleted \in BOOLEAN, failAt \in 0..MaxCapacity, faults \in FaultSets :
       ExportFaultyCall(c, includeDeleted, failAt, faults)
NextExport == StepExport(1)
SpecExport == InitIter /\ [][NextExport]_vars
\* ================================================================ claims
BulkOps == {"BatchAdd"} \cup SearchOps
SearchReturned(c) ==
  /\ call[c].pc = "returned" /\ call[c].op \in SearchOps /\ ~call[c].indexNil
Started0(c) == call[c].spawned > 0

\* C1  Order preservation: a returned ParallelSearch / ParallelSearchSimilarity
\* of N queries holds exactly N results, result[i].QueryIndex = i (0-based) and
\* result[i] is the outcome of searching queries[i], whatever the order in
\* which the workers finished.
OrderPreservation ==
  \A c \in Callers : SearchReturned(c) =>
    LET cl == call[c]
        rs == cl.ret.results.items
    IN /\ Len(rs) = Len(cl.queries)
       /\ \A i \in 1..Len(cl.queries) :
            /\ rs[i].QueryIndex = i - 1
            /\ rs[i] = SearchOutcome(cl.op, cl.impl, i, cl.queries[i], cl.k)

\* C1 witness: two different queries answered by two workers, the second
\* query's result delivered first, and the results differ.
OrderPreservationWitness ==
  \E c \in Callers :
    /\ SearchReturned(c) /\ call[c].impl = "parallel" /\ call[c].maxWorkers = 2
    /\ Len(call[c].outCh) = 2 /\ call[c].outCh[1].QueryIndex = 1
    /\ call[c].ret.results.items[1].Labels # call[c].ret.results.items[2].Labels

\* C8  Synchronous bulk semantics: when a bulk call has returned, none of its
\* workers is inside index.Add or index.SearchK (all have left their loop),
\* and a search call has written every one of its N result slots.
SynchronousBulk ==
  \A c \in Callers :
    (call[c].pc = "returned" /\ call[c].op \in BulkOps) =>
      /\ \A w \in Workers : wk[c][w].pc \in {"none", "exit"}
      /\ (call[c].op \in SearchOps /\ Started0(c)) =>
            \A j \in 1..Len(call[c].queries) : call[c].written[j] >= 1

\* C8 witness: a search of two queries by two workers has returned.
SynchronousBulkWitness ==
  \E c \in Callers :
    /\ SearchReturned(c) /\ call[c].maxWorkers = 2 /\ Len(call[c].queries) = 2
    /\ \A w \in 1..2 : wk[c][w].pc = "exit"

\* C10  Parallel search refines sequential search: on an index no one mutates
\* during the call, result i of ParallelSearch holds the labels and distances
\* a sequential index.SearchK(queries[i], k) returns.
ParallelRefinesSequential ==
  \A c \in Callers :
    (SearchReturned(c) /\ call[c].op = "ParallelSearch") =>
      \A i \in 1..Len(call[c].queries) :
        LET seq == SearchK(h, space, store, call[c].queries[i], call[c].k)
            r   == call[c].ret.results.items[i]
        IN r.Labels = seq.labels /\ r.Scores = seq.distances

\* C10 witness: a parallel search over a two-element index whose two queries
\* have different nearest neighbours.
ParallelRefinesSequentialWitness ==
  \E c \in Callers :
    /\ SearchReturned(c) /\ call[c].op = "ParallelSearch" /\ Len(store) = 2
    /\ Len(call[c].queries) = 2 /\ call[c].maxWorkers = 2
    /\ call[c].ret.results.items[1].Labels.items # <<>>
    /\ call[c].ret.results.items[1].Labels # call[c].ret.results.items[2].Labels
\* Records of caller c that passed a capacity check and are not inserted yet:
\* the unfinished records of a "main" batch (admitted as a whole), the
\* records of a "parallel" batch and the single Add that are past Add's check.
Inserting(c) == Cardinality({w \in Workers : wk[c][w].pc = "insert"})
Pending(c) ==
  LET cl == call[c]
  IN IF cl.op = "BatchAdd" /\ cl.pc = "wait"
       THEN (IF cl.impl = "main"
               THEN Cardinality({j \in 1..Len(cl.vectors) : cl.handed[j] = 0})
               ELSE 0) + Inserting(c)
     ELSE IF cl.op = "Add" /\ cl.pc = "insert" THEN 1
     ELSE 0

\* C2  Capacity ceiling under concurrency: the elements of the index plus the
\* records admitted and not yet inserted never exceed maxElements.
CapacityCeiling ==
  Len(store) + Pending(1) + Pending(2) <= maxElements

\* C3  A BatchAdd of N records on an index with currentCount + N > maxElements
\* fails at once with the capacity error: nothing is handed to index.Add, no
\* worker is started and the index holds what it held before.
BatchOverCapacityRejected ==
  \A c \in Callers :
    LET cl == call[c]
    IN (cl.op = "BatchAdd" /\ ~cl.indexNil
          /\ Len(cl.seenStore) + Len(cl.vectors) > maxElements) =>
         /\ cl.pc = "returned"
         /\ cl.ret.err.msg = ErrBatchCap
         /\ cl.spawned = 0
         /\ store = cl.seenStore

\* C4  Single-insert capacity boundary: index.Add is rejected with the
\* capacity error exactly when currentCount >= maxElements, and then leaves
\* the index as it was; below capacity an Add of an unused label the engine
\* accepts succeeds (on an open index) and adds one element.  The count never
\* exceeds maxElements.
AddCapacityBoundary ==
  /\ Len(store) <= maxElements
  /\ \A c \in Callers :
       (call[c].pc = "returned" /\ call[c].op = "Add") =>
         LET cl     == call[c]
             before == Len(cl.seenStore)
             rec    == cl.vectors[1]
         IN /\ (cl.ret.err.msg = ErrAtCapacity) <=> (before >= maxElements)
            /\ (before >= maxElements) => store = cl.seenStore
            /\ (h = "open" /\ before < maxElements /\ ~rec.rej
                  /\ LabelSlots(cl.seenStore, rec.label) = {})
                  => (cl.ret.err = NoErr /\ Len(store) = before + 1)

\* C4 witness: an Add rejected for capacity on a full index of two elements.
AddCapacityBoundaryWitness ==
  \E c \in Callers :
    /\ call[c].pc = "returned" /\ call[c].op = "Add"
    /\ call[c].ret.err.msg = ErrAtCapacity
    /\ maxElements = 2 /\ Len(store) = 2

\* C5  Failure isolation: every record of a BatchAdd that started its workers
\* has been handed to index.Add exactly once when the call returns, also when
\* some Add failed.
FailureIsolation ==
  \A c \in Callers :
    (call[c].pc = "returned" /\ call[c].op = "BatchAdd" /\ Started0(c)) =>
      \A j \in 1..Len(call[c].vectors) : call[c].handed[j] = 1

\* C6  BatchAdd returns an error exactly when an up-front check failed or some
\* index.Add of the batch failed; after the workers ran, the error returned is
\* one of the errors a failed Add produced, and none of them is lost.
UpFrontFailure(cl) ==
  \/ cl.indexNil
  \/ cl.impl = "main" /\ Len(cl.vectors) > 0
       /\ GetCurrentCount(h, cl.seenStore) + Len(cl.vectors) > GetMaxElements(h, maxElements)
BatchAddErrorIff ==
  \A c \in Callers :
    (call[c].pc = "returned" /\ call[c].op = "BatchAdd") =>
      LET cl == call[c]
      IN /\ (cl.ret.err # NoErr) <=> (UpFrontFailure(cl) \/ cl.addErrs # {})
         /\ UpFrontFailure(cl) => (cl.addErrs = {} /\ ~Started0(c))
         /\ (cl.ret.err # NoErr /\ ~UpFrontFailure(cl)) => cl.ret.err \in cl.addErrs

\* C6 witness: two workers of a "main" batch both failed and one of the two
\* errors is returned.
BatchAddErrorIffWitness ==
  \E c \in Callers :
    /\ call[c].pc = "returned" /\ call[c].op = "BatchAdd" /\ call[c].impl = "main"
    /\ Cardinality(call[c].addErrs) = 2 /\ Len(call[c].outCh) = 2
    /\ call[c].ret.err \in call[c].addErrs

\* C7  A BatchAdd of N records with pairwise distinct, unused labels that
\* returns nil (nobody else mutating) has added all N: the count grew by N and
\* every label of the batch is stored, not deleted, with its (normalized) vector.
StoredForm(sp, v) == IF sp = "c" THEN normalizeVector(v) ELSE v
BatchAddSuccessComplete ==
  \A c \in Callers :
    LET cl == call[c]
    IN (cl.pc = "returned" /\ cl.op = "BatchAdd" /\ ~cl.indexNil /\ cl.ret.err = NoErr
          /\ \A j \in 1..Len(cl.vectors) : LabelSlots(cl.seenStore, cl.vectors[j].label) = {}) =>
         /\ Len(store) = Len(cl.seenStore) + Len(cl.vectors)
         /\ \A j \in 1..Len(cl.vectors) :
              \E i \in Live(store) :
                /\ store[i].label = cl.vectors[j].label
                /\ store[i].vec = StoredForm(space, cl.vectors[j].vec)

\* C7 witness: a batch of two records added by two workers returned nil.
BatchAddSuccessCompleteWitness ==
  \E c \in Callers :
    /\ call[c].pc = "returned" /\ call[c].op = "BatchAdd" /\ call[c].ret.err = NoErr
    /\ Len(call[c].vectors) = 2 /\ call[c].maxWorkers = 2 /\ Len(store) = 2

\* C9  An empty job set is a no-op: the bulk call returns nil (a nil result
\* and a nil error) at once and starts no worker.
EmptyJobSetIsNoOp ==
  \A c \in Callers :
    (call[c].op \in BulkOps /\ ~call[c].indexNil /\ NJobs(call[c]) = 0) =>
      /\ call[c].pc = "returned"
      /\ call[c].spawned = 0
      /\ call[c].ret.err = NoErr
      /\ call[c].ret.results = NilSlice

\* ---------------------------------------------------------------- searches
\* A returned search, parallel or direct: its queries, its k and its results
\* as [labels, scores, count] (count is len(labels) where a result has no
\* Count field).
DirectReturned(c) == call[c].pc = "returned" /\ call[c].op \in DirectSearches
ShapeOf(impl, r) ==
  [labels |-> r.Labels, scores |-> r.Scores,
   count |-> IF impl = "main" THEN r.Count ELSE Len(r.Labels.items)]
ResultsOf(c) ==
  IF DirectReturned(c) THEN <<call[c].val>>
  ELSE [i \in 1..Len(call[c].ret.results.items) |->
          ShapeOf(call[c].impl, call[c].ret.results.items[i])]
KOf(c) == IF DirectReturned(c) THEN call[c].arg.k ELSE call[c].k
QueryOf(c, i) == IF DirectReturned(c) THEN call[c].arg.query ELSE call[c].queries[i]
SimilarityOps == {"SearchKSimilarity", "ParallelSearchSimilarity"}

\* C11  Determinism on duplicate queries: the results of one parallel search
\* for two positions that hold the same query vector are identical (labels in
\* the same order, the same scores), whichever workers served them.
DuplicateQueriesAgree ==
  \A c \in Callers : SearchReturned(c) =>
    \A i, j \in 1..Len(call[c].queries) :
      call[c].queries[i] = call[c].queries[j] =>
        /\ call[c].ret.results.items[i].Labels = call[c].ret.results.items[j].Labels
        /\ call[c].ret.results.items[i].Scores = call[c].ret.results.items[j].Scores

\* C11 witness: the same query twice in a batch served by two workers over an
\* index of two elements, a neighbour found for each.
DuplicateQueriesAgreeWitness ==
  \E c \in Callers :
    /\ SearchReturned(c) /\ call[c].maxWorkers = 2 /\ Len(call[c].queries) = 2
    /\ call[c].queries[1] = call[c].queries[2] /\ Len(store) = 2
    /\ \E w1, w2 \in 1..2 : w1 # w2 /\ wk[c][w1].job = 1 /\ wk[c][w2].job = 2
    /\ call[c].ret.results.items[1].Labels.items # <<>>

ExportReturned(c) == call[c].pc = "returned" /\ call[c].op = "Export"
\* The slots an Export has to visit.
ToVisit(st, includeDeleted) == IF includeDeleted THEN 1..Len(st) ELSE Live(st)

\* C14  Export completeness: an Export that the visitor does not stop, on an
\* open index of K elements of which D are soft-deleted, invokes the visitor
\* K - D times and never with isDeleted when includeDeleted is false, K times
\* when it is true; every label due is visited exactly once, with its stored
\* vector and with isDeleted exactly for the deleted ones.
ExportCompleteness ==
  \A c \in Callers :
    (ExportReturned(c) /\ h = "open" /\ call[c].ret.err = NoErr) =>
      LET visits == call[c].val
          due    == ToVisit(store, call[c].arg.includeDeleted)
      IN /\ Len(visits) = Cardinality(due)
         /\ Len(visits) = IF call[c].arg.includeDeleted THEN Len(store)
                          ELSE Len(store) - getDeletedCount(store)
         /\ \A i \in due :
              /\ Cardinality({n \in 1..Len(visits) : visits[n].label = store[i].label}) = 1
              /\ \E n \in 1..Len(visits) :
                   /\ visits[n].label = store[i].label
                   /\ visits[n].isDeleted = store[i].deleted
                   /\ visits[n].vector = Slice(<<store[i].vec>>)
         /\ ~call[c].arg.includeDeleted => \A n \in 1..Len(visits) : ~visits[n].isDeleted

\* C14 witness: an Export without the deleted elements over two elements, one
\* of them soft-deleted, that visited the other one.
ExportCompletenessWitness ==
  \E c \in Callers :
    /\ ExportReturned(c) /\ h = "open" /\ call[c].ret.err = NoErr
    /\ ~call[c].arg.includeDeleted
    /\ Len(store) = 2 /\ getDeletedCount(store) = 1 /\ Len(call[c].val) = 1

\* C15  Export early exit: when the visitor returns an error on its n-th
\* invocation, Export returns that error and the visitor has been invoked
\* exactly n times; when fewer than n elements are due, Export returns nil
\* after visiting them all.
ExportEarlyExit ==
  \A c \in Callers :
    (ExportReturned(c) /\ h = "open" /\ call[c].arg.failAt >= 1) =>
      LET n   == call[c].arg.failAt
          due == Cardinality(ToVisit(store, call[c].arg.includeDeleted))
      IN IF n <= due
           THEN call[c].ret.err = Err(ErrVisitor, n) /\ Len(call[c].val) = n
           ELSE call[c].ret.err = NoErr /\ Len(call[c].val) = due

\* C15 witness: a visitor that fails on its first invocation, two elements due.
ExportEarlyExitWitness ==
  \E c \in Callers :
    /\ ExportReturned(c) /\ h = "open" /\ call[c].arg.failAt = 1
    /\ Cardinality(Live(store)) = 2
    /\ call[c].ret.err = Err(ErrVisitor, 1) /\ Len(call[c].val) = 1

\* ---------------------------------------------------------- the iterator
LastIs(c, op) == call[c].pc = "returned" /\ call[c].op = op

\* C16  Iterator snapshot: the totalCount of an iterator is the element count
\* read when the iterator was made, for the iterator's whole life.
IteratorSnapshot == it.made => it.totalCount = it.born

\* C17  Full traversal: on an open index of K elements the loop
\* `for Next() { Element(); Vector(); Advance() }` over a fresh iterator makes
\* K steps, no fetch fails, step i reports the element of internal id i - 1
\* (so every stored label once) with its stored vector, and IsDeleted exactly
\* for the soft-deleted elements.
FullTraversal ==
  \A c \in Callers : LastIs(c, "Traverse") =>
    LET t == call[c].val
    IN /\ ~t.failed
       /\ Len(t.steps) = Len(store)
       /\ \A i \in 1..Len(store) :
            /\ t.steps[i].info = [InternalID |-> i - 1, Label |-> store[i].label,
                                  IsDeleted |-> store[i].deleted]
            /\ t.steps[i].vector = Slice(<<store[i].vec>>)
            /\ Cardinality({n \in 1..Len(t.steps) :
                              t.steps[n].info.Label = store[i].label}) = 1

\* C17 witness: a traversal of two elements, the second one soft-deleted.
FullTraversalWitness ==
  \E c \in Callers :
    /\ LastIs(c, "Traverse") /\ Len(call[c].val.steps) = 2
    /\ ~call[c].val.steps[1].info.IsDeleted /\ call[c].val.steps[2].info.IsDeleted

\* C18  Iterator life cycle: the cursor is the number of Advance calls since
\* the iterator was made or last Reset; Progress reports (that number,
\* totalCount), where totalCount is K on an index that holds K elements as it
\* did when the iterator was made; Next is true exactly while the cursor is
\* below totalCount; Reset puts the cursor to 0, after which Next is true if
\* the index holds an element.
IteratorLifeCycle ==
  it.made =>
    /\ it.currentID = it.steps
    /\ (h = "open" /\ Len(store) = it.born) => it.totalCount = Len(store)
    /\ \A c \in Callers :
         /\ LastIs(c, "Progress") =>
              call[c].val = [current |-> it.steps, total |-> it.totalCount]
         /\ LastIs(c, "Next") => (call[c].val <=> it.steps < it.totalCount)
         /\ LastIs(c, "Reset") =>
              /\ it.currentID = 0
              /\ GetCurrentCount(h, store) > 0 => IterNext(it)

\* C18 witness: an iterator over two elements, advanced twice, whose Next
\* answered false.
IteratorLifeCycleWitness ==
  \E c \in Callers :
    /\ LastIs(c, "Next") /\ ~call[c].val /\ h = "open"
    /\ it.steps = 2 /\ it.totalCount = 2 /\ Len(store) = 2

\* ------------------------------------------------------- the closed index
\* C19  Close is idempotent: the engine handle is freed at most once, it is
\* freed exactly when the index is closed, and a Close of a closed index
\* changes nothing and makes no engine call.
CloseIdempotent ==
  /\ eng.frees <= 1
  /\ (h = "nil") <=> (eng.frees = 1)
  /\ ~eng.stale
  /\ \A c \in Callers :
       (LastIs(c, "Close") /\ call[c].arg = "nil") =>
         /\ h = "nil" /\ eng.frees = 1
         /\ store = call[c].seenStore

\* C19 witness: a Close called on an index that an earlier Close had closed.
CloseIdempotentWitness ==
  \E c \in Callers : LastIs(c, "Close") /\ call[c].arg = "nil" /\ eng.frees = 1

\* C20  Closed-handle behaviour: on a closed index Add, Resize, Save,
\* MarkDeleted, UnmarkDeleted, GetVector, GetVectors, NewIterator and Export
\* return the closed-handle error, SearchK and SearchKSimilarity return nil
\* slices with count 0, the count getters return 0, nothing of the index
\* changes, and the engine is never called with the freed handle.
ClosedErrorOps ==
  {"Add", "Resize", "Save", "MarkDeleted", "UnmarkDeleted", "GetVector", "GetVectors",
   "NewIterator", "Export"}
ClosedHandleBehaviour ==
  /\ ~eng.stale
  /\ \A c \in Callers :
       (h = "nil" /\ call[c].pc = "returned") =>
         /\ call[c].op \in ClosedErrorOps => call[c].ret.err.msg = ErrClosed
         /\ call[c].op \in DirectSearches =>
              call[c].val = [labels |-> NilSlice, scores |-> NilSlice, count |-> 0]
         /\ call[c].op \in Getters => call[c].val = 0
         /\ call[c].op = "GetVector" => call[c].val = NilSlice
         /\ call[c].op = "GetVectors" => call[c].val.nil
         /\ call[c].op = "Export" => call[c].val = <<>>
         /\ call[c].op = "NewIterator" => ~call[c].val
         /\ store = <<>>

\* C20 witness: MarkDeleted answered with the closed-handle error.
ClosedHandleBehaviourWitness ==
  \E c \in Callers :
    /\ h = "nil" /\ LastIs(c, "MarkDeleted")
    /\ call[c].ret.err = Err(ErrClosed, 0) /\ eng.frees = 1

\* C21  BatchAdd of a non-empty batch on a closed index returns the
\* closed-handle error (not the capacity error) and inserts nothing.
BatchAddOnClosed ==
  \A c \in Callers :
    (LastIs(c, "BatchAdd") /\ ~call[c].indexNil /\ h = "nil" /\ Len(call[c].vectors) > 0) =>
      /\ call[c].ret.err.msg = ErrClosed
      /\ store = call[c].seenStore

\* ----------------------------------------------------- lookups and vectors
ActiveLabels(st) == {st[i].label : i \in Live(st)}

\* C22  Lookup of labels on an open index: GetVector returns the stored
\* vector of a label that is stored and not soft-deleted and the not-found
\* error (with a nil vector) for any other label; GetVectors returns no error
\* and a map whose keys are exactly the requested labels that are stored and
\* not deleted, each with its stored vector.
LookupOfLabels ==
  \A c \in Callers : h = "open" =>
    /\ LastIs(c, "GetVector") =>
         IF call[c].arg \in ActiveLabels(store)
           THEN /\ call[c].ret.err = NoErr
                /\ call[c].val = Slice(<<store[Slot(store, call[c].arg)].vec>>)
           ELSE /\ call[c].ret.err = Err(ErrNotFound, 0)
                /\ call[c].val = NilSlice
    /\ LastIs(c, "GetVectors") =>
         /\ call[c].ret.err = NoErr
         /\ ~call[c].val.nil
         /\ call[c].val.found =
              {call[c].arg[j] : j \in 1..Len(call[c].arg)} \cap ActiveLabels(store)
         /\ \A l \in call[c].val.found :
              call[c].val.result[l] = store[Slot(store, l)].vec

\* C22 witness: GetVectors for the labels 1 and 2 on an index that holds both,
\* label 2 soft-deleted: the map holds label 1 only.
LookupOfLabelsWitness ==
  \E c \in Callers :
    /\ h = "open" /\ LastIs(c, "GetVectors") /\ call[c].arg = <<1, 2>>
    /\ Len(store) = 2 /\ call[c].val.found = {1}

\* C23  Stored-vector fidelity: after a successful Add(v, label), and for
\* every record of a BatchAdd that returned nil, GetVector(label) returns v on
\* an L2 or inner-product index and normalize(v) on a cosine index; a SearchK
\* or ParallelSearch answers with what the engine finds for the query as it
\* is, on a cosine index for the normalized query.
EngineAnswer(q, k) == searchKnn(space, store, StoredForm(space, q), k)
StoredVectorFidelity ==
  \A c \in Callers : h = "open" =>
    /\ (LastIs(c, "Add") /\ call[c].ret.err = NoErr) =>
         GetVector(h, store, call[c].vectors[1].label).vector
           = Slice(<<StoredForm(space, call[c].vectors[1].vec)>>)
    /\ (LastIs(c, "BatchAdd") /\ ~call[c].indexNil /\ call[c].ret.err = NoErr) =>
         \A j \in 1..Len(call[c].vectors) :
           GetVector(h, store, call[c].vectors[j].label).vector
             = Slice(<<StoredForm(space, call[c].vectors[j].vec)>>)
    /\ ((SearchReturned(c) /\ call[c].op = "ParallelSearch") \/ LastIs(c, "SearchK")) =>
         \A i \in 1..Len(ResultsOf(c)) :
           /\ ResultsOf(c)[i].labels = Slice(EngineAnswer(QueryOf(c, i), KOf(c)).label)
           /\ ResultsOf(c)[i].scores = Slice(EngineAnswer(QueryOf(c, i), KOf(c)).dist)

\* C23 witness: Add of the vector 2 on a cosine index, stored as 1.
StoredVectorFidelityWitness ==
  \E c \in Callers :
    /\ h = "open" /\ space = "c" /\ LastIs(c, "Add") /\ call[c].ret.err = NoErr
    /\ call[c].vectors[1].vec = 2
    /\ GetVector(h, store, call[c].vectors[1].label).vector = Slice(<<1>>)

\* ------------------------------------------------------------- soft delete
\* The store with the delete flag of label l set to d.
WithFlag(st, l, d) == [st EXCEPT ![Slot(st, l)].deleted = d]
Searchable(l) ==
  \E q \in Vecs : \E j \in 1..MaxCapacity :
    j <= SearchK(h, space, store, q, MaxCapacity).count
      /\ SearchK(h, space, store, q, MaxCapacity).labels.items[j] = l

\* C24  Soft delete round trip: a MarkDeleted of a stored, active label sets
\* its flag and nothing else (deleted count + 1, element count unchanged), and
\* the UnmarkDeleted of that label then gives back the store as it was before
\* the MarkDeleted: deleted count as before, the label retrievable and
\* searchable again, element count unchanged.
SoftDeleteRoundTrip ==
  \A c \in Callers : h = "open" =>
    /\ (LastIs(c, "MarkDeleted") /\ call[c].arg \in ActiveLabels(call[c].seenStore)) =>
         /\ call[c].ret.err = NoErr
         /\ store = WithFlag(call[c].seenStore, call[c].arg, TRUE)
         /\ GetDeletedCount(h, store) = GetDeletedCount(h, call[c].seenStore) + 1
         /\ GetCurrentCount(h, store) = GetCurrentCount(h, call[c].seenStore)
         /\ UnmarkDeleted(h, store, call[c].arg).err = "nil"
         /\ UnmarkDeleted(h, store, call[c].arg).store = call[c].seenStore
    /\ (LastIs(c, "UnmarkDeleted") /\ call[c].ret.err = NoErr) =>
         /\ LabelSlots(call[c].seenStore, call[c].arg) # {}
         /\ call[c].seenStore[Slot(call[c].seenStore, call[c].arg)].deleted
         /\ store = WithFlag(call[c].seenStore, call[c].arg, FALSE)
         /\ GetDeletedCount(h, store) = GetDeletedCount(h, call[c].seenStore) - 1
         /\ GetCurrentCount(h, store) = GetCurrentCount(h, call[c].seenStore)
         /\ GetVector(h, store, call[c].arg).err = "nil"
         /\ Searchable(call[c].arg)

\* C24 witness: an UnmarkDeleted that brought back one of two elements.
SoftDeleteRoundTripWitness ==
  \E c \in Callers :
    /\ h = "open" /\ LastIs(c, "UnmarkDeleted") /\ call[c].ret.err = NoErr
    /\ Len(store) = 2 /\ getDeletedCount(call[c].seenStore) = 1
    /\ getDeletedCount(store) = 0

\* C25  A MarkDeleted of a label that is not stored or is deleted already,
\* and an UnmarkDeleted of a label that is not stored or is not deleted,
\* return their error and leave the store (element count, deleted count,
\* every delete flag) as it was.
MarkFailureLeavesState ==
  \A c \in Callers : h = "open" =>
    /\ (LastIs(c, "MarkDeleted") /\ call[c].arg \notin ActiveLabels(call[c].seenStore)) =>
         call[c].ret.err = Err(ErrMark, 0) /\ store = call[c].seenStore
    /\ (LastIs(c, "UnmarkDeleted")
          /\ (LabelSlots(call[c].seenStore, call[c].arg) = {}
                \/ call[c].arg \in ActiveLabels(call[c].seenStore))) =>
         call[c].ret.err = Err(ErrUnmark, 0) /\ store = call[c].seenStore

\* C25 witness: a second MarkDeleted of a label that is deleted already.
MarkFailureLeavesStateWitness ==
  \E c \in Callers :
    /\ h = "open" /\ LastIs(c, "MarkDeleted") /\ call[c].ret.err = Err(ErrMark, 0)
    /\ LabelSlots(store, call[c].arg) # {} /\ getDeletedCount(store) = 1

TakenBy(c, j) == {w \in Workers : wk[c][w].pc \in {"search", "store"} /\ wk[c][w].job = j}
ExactlyOnceDispatch ==
  \A c \in Callers : (call[c].op \in SearchOps /\ Started0(c)) =>
    \A j \in 1..Len(call[c].queries) :
      /\ call[c].handed[j] <= 1
      /\ call[c].written[j] <= 1
      /\ Cardinality(TakenBy(c, j)) <= 1
      /\ call[c].pc = "returned" => (call[c].handed[j] = 1 /\ call[c].written[j] = 1)

\* C28 witness: two workers of a "main" search, each about to write the
\* result of a query of its own.
ExactlyOnceDispatchWitness ==
  \E c \in Callers :
    /\ call[c].op \in SearchOps /\ call[c].impl = "main" /\ call[c].pc = "wait"
    /\ wk[c][1].pc = "store" /\ wk[c][2].pc = "store"
    /\ wk[c][1].job # wk[c][2].job

\* C30  Bounded pool: a bulk call that starts its workers starts exactly W of
\* them, W being options.MaxWorkers when options is given and MaxWorkers is
\* positive and GOMAXPROCS otherwise; W is at least 1 and at most W calls of
\* index.Add / index.SearchK of that bulk call are in flight.
InFlight(c) == {w \in Workers : wk[c][w].pc \in {"add", "insert", "search"}}
BoundedPool ==
  \A c \in Callers : (call[c].op \in BulkOps /\ call[c].pc = "wait") =>
    LET W == IF ~call[c].optsNil /\ call[c].givenMaxWorkers > 0
               THEN call[c].givenMaxWorkers ELSE NumCPU
    IN /\ W >= 1
       /\ call[c].spawned = W
       /\ {w \in Workers : wk[c][w].pc # "none"} = 1..W
       /\ Cardinality(InFlight(c)) <= W

\* C30 witness: two workers asked for, both inside index.Add at once.
BoundedPoolWitness ==
  \E c \in Callers :
    /\ call[c].op = "BatchAdd" /\ call[c].pc = "wait" /\ call[c].givenMaxWorkers = 2
    /\ Cardinality(InFlight(c)) = 2

\* C29  Termination: under fair scheduling every BatchAdd, ParallelSearch
\* and ParallelSearchSimilarity that started its workers returns, its
\* producer closes the job channel and every worker leaves its loop, whatever
\* the batch size, the worker count and the adds that fail.
Running(c) == {w \in Workers : wk[c][w].pc \notin {"none", "exit"}}
Termination ==
  \A c \in Callers :
    /\ (call[c].pc = "wait") ~> (call[c].pc = "returned")
    /\ (~call[c].closed) ~> call[c].closed
    /\ (Running(c) # {}) ~> (Running(c) = {})

\* C29 witness: a BatchAdd of one record whose add failed, run by two
\* workers, has returned with producer and workers gone.
TerminationWitness ==
  \E c \in Callers :
    /\ call[c].op = "BatchAdd" /\ call[c].pc = "returned"
    /\ Len(call[c].vectors) = 1 /\ call[c].spawned = 2
    /\ call[c].ret.err # NoErr /\ call[c].addErrs # {}
    /\ call[c].closed /\ Running(c) = {}

\* C31  Pool teardown: when a bulk call has returned, the goroutine that
\* produces its jobs has closed the job channel and finished, and every
\* worker it started has left its loop.
PoolTeardown ==
  \A c \in Callers : (call[c].op \in BulkOps /\ call[c].pc = "returned") =>
    /\ call[c].closed
    /\ Running(c) = {}

\* ------------------------------------------------- Export, failing fetches
\* The slots a fault-free fetch would hand to the visitor.
Due(st, includeDeleted, faults) ==
  {i \in ToVisit(st, includeDeleted) : (i - 1) \notin (faults.element \cup faults.vector)}
\* The trail entries up to and including the one at which the visitor stopped.
Iterated(c, i) == \E n \in 1..Len(call[c].val.trail) : call[c].val.trail[n].id = i - 1
VisitedAt(c, i) ==
  \E n \in 1..Len(call[c].val.trail) :
    call[c].val.trail[n].id = i - 1 /\ call[c].val.trail[n].did = "visited"

\* C32  Skip on fetch failure: a slot whose element info or vector cannot be
\* fetched during Export is passed over without invoking the visitor, the
\* cursor moves on, every other slot due is still handed to the visitor (up
\* to the one at which the visitor stops) and Export returns nil unless the
\* visitor returned an error.
SkipOnFetchFailure ==
  \A c \in Callers : (ExportReturned(c) /\ h = "open") =>
    LET a   == call[c].arg
        due == Due(store, a.includeDeleted, a.faults)
        n   == Len(call[c].val.visits)
    IN /\ \A i \in 1..Len(store) :
            (i - 1) \in (a.faults.element \cup a.faults.vector) => ~VisitedAt(c, i)
       /\ \A i \in due : Iterated(c, i) => VisitedAt(c, i)
       /\ IF a.failAt >= 1 /\ a.failAt <= Cardinality(due)
            THEN call[c].ret.err = Err(ErrVisitor, a.failAt) /\ n = a.failAt
            ELSE /\ call[c].ret.err = NoErr
                 /\ n = Cardinality(due)
                 /\ \A i \in 1..Len(store) : Iterated(c, i)
       /\ \A v \in 1..n : \E i \in due :
            /\ call[c].val.visits[v].label = store[i].label
            /\ call[c].val.visits[v].vector = Slice(<<store[i].vec>>)

\* C32 witness: of two elements the first could not be fetched; Export
\* handed the second to the visitor and returned nil.
SkipOnFetchFailureWitness ==
  \E c \in Callers :
    /\ ExportReturned(c) /\ h = "open" /\ Len(store) = 2
    /\ call[c].arg.faults.element = {0} /\ call[c].arg.faults.vector = {}
    /\ call[c].ret.err = NoErr
    /\ Len(call[c].val.visits) = 1 /\ call[c].val.visits[1].label = store[2].label

\* C34  Export terminates: its loop makes at most totalCount iterations, the
\* n-th of them at internal id n - 1 (each iteration moves the cursor by one,
\* so the ids are strictly increasing and none is met twice), the visitor
\* is invoked once per iteration that reached it, and the loop ends at the
\* snapshot bound or at the visitor's error.
ExportTerminates ==
  \A c \in Callers : (ExportReturned(c) /\ h = "open") =>
    LET trail == call[c].val.trail
    IN /\ Len(trail) <= GetCurrentCount(h, store)
       /\ \A n \in 1..Len(trail) : trail[n].id = n - 1
       /\ Cardinality({n \in 1..Len(trail) : trail[n].did = "visited"})
            = Len(call[c].val.visits)
       /\ IF call[c].ret.err = NoErr
            THEN Len(trail) = GetCurrentCount(h, store)
            ELSE trail[Len(trail)].did = "visited"

\* C34 witness: two elements, the vector of the first cannot be fetched, the
\* visitor fails on the second: two iterations, then the return.
ExportTerminatesWitness ==
  \E c \in Callers :
    /\ ExportReturned(c) /\ h = "open" /\ Len(call[c].val.trail) = 2
    /\ call[c].val.trail[1].did = "no vector"
    /\ call[c].val.trail[2].did = "visited"
    /\ call[c].ret.err = Err(ErrVisitor, 1)

\* ------------------------------------------------ the iterator's cursor
ReadOnlyIteratorOps == {"Next", "Element", "Vector", "Progress"}

\* C33  Cursor frame condition: a step that is a call of Next, Element,
\* Vector or Progress, successful or failed, leaves currentID and totalCount
\* as they were; a step that moves the cursor of an iterator forward is a
\* call of Advance, and Advance moves it by exactly one and leaves
\* totalCount alone.
CursorFrame ==
  [][ /\ \A c \in Callers :
           (call'[c] # call[c] /\ call'[c].op \in ReadOnlyIteratorOps) =>
             (it'.currentID = it.currentID /\ it'.totalCount = it.totalCount)
      /\ (it.made /\ it'.currentID > it.currentID) =>
           \E c \in Callers : call'[c].op = "Advance"
      /\ \A c \in Callers :
           (call'[c].op = "Advance" /\ it' # it) =>
             (it'.currentID = it.currentID + 1 /\ it'.totalCount = it.totalCount)
    ]_vars

\* C33 witness: an Element call that failed past the end of the index, the
\* cursor still where two Advance calls put it.
CursorFrameWitness ==
  \E c \in Callers :
    /\ LastIs(c, "Element") /\ call[c].ret.err # NoErr /\ h = "open"
    /\ call[c].arg = it /\ it.currentID = 2 /\ it.steps = 2

\* ------------------------------------------------------ similarity ranks
\* a >= b for two similarities num/den as float32 computes them: a zero
\* denominator is +Inf, a negative one a negative score.
Positive(a) == IF a.den < 0 THEN [num |-> -a.num, den |-> -a.den] ELSE a
SimGeq(a, b) ==
  LET x == Positive(a)
      y == Positive(b)
  IN \/ x.den = 0
     \/ y.den # 0 /\ x.num * y.den >= y.num * x.den

\* C35  Rank preservation: of two queries of one similarity search that
\* found their nearest neighbours at distances d1 <= d2, the first gets a
\* similarity at least as high as the second, in every space.
RankPreservation ==
  \A c \in Callers :
    (SearchReturned(c) /\ call[c].op = "ParallelSearchSimilarity" /\ h = "open") =>
      \A i, j \in 1..Len(ResultsOf(c)) :
        LET di == SearchK(h, space, store, QueryOf(c, i), KOf(c))
            dj == SearchK(h, space, store, QueryOf(c, j), KOf(c))
        IN (di.count >= 1 /\ dj.count >= 1
              /\ di.distances.items[1] <= dj.distances.items[1]) =>
             SimGeq(ResultsOf(c)[i].scores.items[1], ResultsOf(c)[j].scores.items[1])

\* ------------------------------------------------- the caller's memory
\* C36  Caller vectors are never mutated: the vectors of an Add or BatchAdd
\* and the queries of a SearchK, SearchKSimilarity or parallel search hold,
\* while the call runs and after it, the values the caller passed, on a
\* cosine index as on any other.
CallerVectorsIntact ==
  \A c \in Callers :
    /\ call[c].vectors = call[c].givenVectors
    /\ IF DirectReturned(c)
         THEN call[c].arg.query = call[c].givenQueries[1]
         ELSE call[c].queries = call[c].givenQueries

\* C36 witness: on a cosine index that holds an element, a parallel search
\* whose two queries are the same unnormalised vector, served by two
\* workers, has returned.
CallerVectorsIntactWitness ==
  \E c \in Callers :
    /\ SearchReturned(c) /\ space = "c" /\ h = "open" /\ Len(store) >= 1
    /\ call[c].queries = <<2, 2>> /\ call[c].spawned = 2
    /\ wk[c][1].job # wk[c][2].job /\ wk[c][1].job # 0 /\ wk[c][2].job # 0
    /\ Len(ResultsOf(c)) = 2 /\ ResultsOf(c)[1].count = 1

\* C37  Options are read-only: the MaxWorkers field of an options struct
\* the caller passed holds, during the bulk call and after it, the value
\* the caller set.
OptionsReadOnly ==
  \A c \in Callers : (call[c].op \in BulkOps /\ ~call[c].optsNil) =>
    call[c].optsMaxWorkers = call[c].givenMaxWorkers

\* ------------------------------------------------ soft delete and capacity
\* C38  Soft-deleted elements keep their slot: under sequential use
\* deletedCount <= currentCount <= maxElements on an open index, a
\* MarkDeleted leaves GetCurrentCount as it was, and an index whose slots are
\* all taken refuses Add and BatchAdd for capacity however many of its
\* elements are soft-deleted.
SoftDeleteKeepsSlot ==
  /\ h = "open" =>
       /\ GetDeletedCount(h, store) <= GetCurrentCount(h, store)
       /\ GetCurrentCount(h, store) <= GetMaxElements(h, maxElements)
  /\ \A c \in Callers : LastIs(c, "MarkDeleted") =>
       GetCurrentCount(h, store) = GetCurrentCount(h, call[c].seenStore)
  /\ (h = "open" /\ Len(store) = maxElements) =>
       /\ AddCheck(h, store, maxElements) = ErrAtCapacity
       /\ BatchCapacityError("main", h, store, maxElements, 1)
  /\ \A c \in Callers :
       (LastIs(c, "Add") /\ h = "open" /\ Len(call[c].seenStore) = maxElements) =>
         /\ call[c].ret.err.msg = ErrAtCapacity
         /\ store = call[c].seenStore

\* C38 witness: a full index of two elements, one of them soft-deleted, has
\* refused an Add for capacity.
SoftDeleteKeepsSlotWitness ==
  \E c \in Callers :
    /\ LastIs(c, "Add") /\ h = "open" /\ call[c].ret.err.msg = ErrAtCapacity
    /\ Len(store) = 2 /\ maxElements = 2 /\ getDeletedCount(store) = 1

\* ------------------------------------------------ the iterator's bound
\* C39  Cursor bound: the cursor of an iterator never passes its snapshot
\* bound, whatever calls were made on it.
CursorBound == it.made => it.currentID <= it.totalCount

\* C40  Out-of-range fetch: an Element or Vector call made while Next() is
\* false returns an error and no element data.
OutOfRangeFetch ==
  \A c \in Callers :
    /\ (LastIs(c, "Element") /\ ~IterNext(call[c].arg)) =>
         (call[c].ret.err # NoErr /\ call[c].val = ZeroElementInfo)
    /\ (LastIs(c, "Vector") /\ ~IterNext(call[c].arg)) =>
         (call[c].ret.err # NoErr /\ call[c].val = NilSlice)
====
